---------------------------- MODULE Spec2Model ----------------------------
(***************************************************************************)
(* Model of the ELSST topic services.                                      *)
(*                                                                         *)
(*   src/server.py      the flat-result service: load_elsst_data,          *)
(*                      build_search_index, topic_result, topic_single,    *)
(*                      show_index_data                                    *)
(*   src/app/server.py  the full-hierarchy service: load_elsst_data,       *)
(*                      get_parent_hierarchy, to_skgif_topic, autocomplete *)
(*                                                                         *)
(* Both services read the same data file when their module is imported.    *)
(*                                                                         *)
(* A Python str is a sequence of one-character strings, so that split,     *)
(* strip, lower, len, `in`, sorted and quote are computed and not assumed. *)
(* The two filter keys are single symbols of their real length.  A Python  *)
(* dict is a sequence of <<key, value>> pairs with distinct keys, in       *)
(* insertion order.  None, where it can occur beside a str, is the empty   *)
(* sequence of an optional: <<>> is None and <<s>> is the str s.           *)
(***************************************************************************)
EXTENDS Integers, Sequences, FiniteSets, TLC

VARIABLES
    source,        \* what open() and json.load() find at DATA_FILE_PATH
    pcFlat,        \* src/server.py process: "boot", "serving" or "crashed"
    ELSST_DATA,    \* src/server.py:150
    SEARCH_INDEX,  \* src/server.py:151
    pcApp,      \* src/app/server.py process: "boot", "serving" or "crashed"
    APP_ELSST_DATA,   \* src/app/server.py:118 (its ELSST_DATA)
    response       \* the request being answered and its response, or NoResponse

vars == <<source, pcFlat, ELSST_DATA, SEARCH_INDEX, pcApp, APP_ELSST_DATA, response>>

----------------------------------------------------------------------------
(* Bounds of the model *)

\* nodes of a generated @graph
MaxNodes == 3
\* length of the longest generated broader chain (above the hop limit)
MaxChain == 22
\* comma-separated parts of a generated filter string
MaxParts == 2
\* size up to which every iteration order of a Python set is generated
MaxShuffle == 3

----------------------------------------------------------------------------
(* Python str *)

KEY_LABELS == "cf.search.labels"
KEY_LANGUAGE == "cf.search.language"

\* len() of one symbol
SymLen(ch) ==
    CASE ch = KEY_LABELS -> 16
      [] ch = KEY_LANGUAGE -> 18
      [] OTHER -> 1

RECURSIVE StrLen(_)
\* len(s)
StrLen(s) == IF s = <<>> THEN 0 ELSE SymLen(Head(s)) + StrLen(Tail(s))

\* str.lower() of one character
LowerChar(ch) ==
    CASE ch = "A" -> "a"
      [] ch = "B" -> "b"
      [] ch = "E" -> "e"
      [] ch = "N" -> "n"
      [] OTHER -> ch

\* s.lower()
Lower(s) == [i \in 1..Len(s) |-> LowerChar(s[i])]

\* sub in s
Contains(s, sub) ==
    \E i \in 0..(Len(s) - Len(sub)) : SubSeq(s, i + 1, i + Len(sub)) = sub

IsSpace(ch) == ch = " "

RECURSIVE LStrip(_)
LStrip(s) == IF s # <<>> /\ IsSpace(Head(s)) THEN LStrip(Tail(s)) ELSE s

RECURSIVE RStrip(_)
RStrip(s) ==
    IF s # <<>> /\ IsSpace(s[Len(s)]) THEN RStrip(SubSeq(s, 1, Len(s) - 1)) ELSE s

\* s.strip()
Strip(s) == RStrip(LStrip(s))

\* index of the first sep in s, 0 when there is none
FirstIndex(s, sep) ==
    IF \E i \in 1..Len(s) : s[i] = sep
    THEN CHOOSE i \in 1..Len(s) : s[i] = sep /\ \A j \in 1..(i - 1) : s[j] # sep
    ELSE 0

RECURSIVE Split(_, _)
\* s.split(sep): the list of the parts between the separators
Split(s, sep) ==
    LET i == FirstIndex(s, sep)
    IN  IF i = 0 THEN <<s>>
        ELSE <<SubSeq(s, 1, i - 1)>> \o Split(SubSeq(s, i + 1, Len(s)), sep)

\* s.split(sep, 1): one part when s holds no sep, else two
Split1(s, sep) ==
    LET i == FirstIndex(s, sep)
    IN  IF i = 0 THEN <<s>>
        ELSE <<SubSeq(s, 1, i - 1), SubSeq(s, i + 1, Len(s))>>

\* ord() of the characters that occur in concept identifiers
Ord(ch) ==
    CASE ch = "%" -> 37
      [] ch = "0" -> 48 [] ch = "1" -> 49 [] ch = "2" -> 50 [] ch = "3" -> 51
      [] ch = "4" -> 52 [] ch = "5" -> 53 [] ch = "6" -> 54 [] ch = "7" -> 55
      [] ch = "8" -> 56 [] ch = "9" -> 57
      [] ch = ":" -> 58
      [] ch = "A" -> 65 [] ch = "B" -> 66
      [] ch = "a" -> 97 [] ch = "b" -> 98 [] ch = "c" -> 99 [] ch = "z" -> 122
      [] OTHER -> 0

RECURSIVE StrLess(_, _)
\* s < t on str: by code point, a proper prefix first
StrLess(s, t) ==
    IF t = <<>> THEN FALSE
    ELSE IF s = <<>> THEN TRUE
    ELSE IF Head(s) = Head(t) THEN StrLess(Tail(s), Tail(t))
    ELSE Ord(Head(s)) < Ord(Head(t))

RECURSIVE Sorted(_)
\* sorted(list(S)) for a set S of str
Sorted(S) ==
    IF S = {} THEN <<>>
    ELSE LET m == CHOOSE x \in S : \A y \in S \ {x} : StrLess(x, y)
         IN  <<m>> \o Sorted(S \ {m})

\* urllib.parse.quote of one character: letters, digits and "/" are kept
QuoteChar(ch) == IF ch = ":" THEN <<"%", "3", "A">> ELSE <<ch>>

RECURSIVE Quote(_)
\* urllib.parse.quote(s)
Quote(s) == IF s = <<>> THEN <<>> ELSE QuoteChar(Head(s)) \o Quote(Tail(s))

\* re.match("^.{2}$", s) in place of "^[a-z]{2}$"
MatchesLanguagePattern_AnyTwo(s) == Len(s) = 2

\* re.match("^[a-z]{2}$", s); s is stripped, so it ends in no newline
MatchesLanguagePattern(s) ==
    Len(s) = 2 /\ \A i \in 1..2 : s[i] \in {"a", "b", "c", "d", "e", "n", "z"}

----------------------------------------------------------------------------
(* Python dict and optional values *)

None == <<>>
Some(x) == <<x>>

\* bool(x) of an optional str: None and "" are falsy
Truthy(opt) == opt # None /\ opt[1] # <<>>

\* list(d.keys())
DictKeys(d) == [i \in 1..Len(d) |-> d[i][1]]

\* key in d
DictHas(d, key) == \E i \in 1..Len(d) : d[i][1] = key

\* d.get(key, default)
DictGet(d, key, default) ==
    IF DictHas(d, key)
    THEN d[CHOOSE i \in 1..Len(d) : d[i][1] = key][2]
    ELSE default

\* d[key] = value: an existing key keeps its place
DictPut(d, key, value) ==
    IF DictHas(d, key)
    THEN [i \in 1..Len(d) |-> IF d[i][1] = key THEN <<key, value>> ELSE d[i]]
    ELSE Append(d, <<key, value>>)

\* the set of a list's elements
Range(seq) == {seq[i] : i \in 1..Len(seq)}

\* body, with value computed first: a loop's variable is computed in each
\* iteration, not when the loop has ended
Strict(value, body) == IF value = value THEN body ELSE body


----------------------------------------------------------------------------
(* Configuration and SKOS names *)

SKG_IF_BASE_URL == <<"b", ":">>
ELSST_DATASOURCE_ID == "urn:cessda:elsst-v5"
SKOS_CONCEPT == "skos:Concept"

\* a @type that is not SKOS_CONCEPT
OTHER_TYPE == "skos:ConceptScheme"

----------------------------------------------------------------------------
(* The data file: what open() and json.load() produce                      *)
(*                                                                         *)
(* A label is [language, value], "" standing for a missing key as well     *)
(* (the loaders treat both alike: `if lang and value`, .get('@value', '')).*)
(* A broader reference is the optional @id of the referenced object.       *)

Label(language, value) == [language |-> language, value |-> value]

\* a JSON object of the @graph list
ObjectNode(hasId, id, typeKind, types, pref, alt, broaderKind, broader) ==
    [t |-> "dict", hasId |-> hasId, id |-> id, typeKind |-> typeKind, types |-> types,
     pref |-> pref, alt |-> alt, broaderKind |-> broaderKind, broader |-> broader]

\* a member of the @graph list that is no JSON object
ScalarNode == [t |-> "scalar"]

\* a Concept with @id, @type given as a str, and one optional broader object
ConceptNode(id, pref, alt, broader) ==
    ObjectNode(TRUE, id, "str", <<SKOS_CONCEPT>>, pref, alt,
               IF broader = None THEN "absent" ELSE "dict",
               IF broader = None THEN <<>> ELSE <<broader>>)

\* values of a "@graph" key
GraphList(nodes) == [t |-> "list", nodes |-> nodes]
GraphNumber == [t |-> "number"]
GraphString == [t |-> "string"]

\* top-level JSON values
JsonDict(hasGraph, graph) == [t |-> "dict", hasGraph |-> hasGraph, graph |-> graph]
JsonList(items) == [t |-> "list", items |-> items]
JsonScalar == [t |-> "scalar"]

\* members of a top-level list that are no JSON object: `'@graph' in item` raises
\* TypeError on a number and is a substring test, here false, on a str
ItemNumber == [t |-> "number"]
ItemString == [t |-> "string"]

\* outcomes of open() and json.load()
FileMissing == [kind |-> "missing"]
FileUndecodable == [kind |-> "undecodable"]
FileMalformed == [kind |-> "malformed"]
FileJson(data) == [kind |-> "json", data |-> data]

\* results of a call: a returned value or a raised exception
Returned(value) == [raised |-> "none", value |-> value]
Raised(exc) == [raised |-> exc, value |-> <<>>]

\* open(filepath, 'r', encoding='utf-8') and json.load(f)
JsonLoad(src) ==
    CASE src.kind = "missing" -> Raised("FileNotFoundError")
      [] src.kind = "undecodable" -> Raised("UnicodeDecodeError")
      [] src.kind = "malformed" -> Raised("JSONDecodeError")
      [] OTHER -> Returned(src.data)

\* the exceptions the loaders' try statement catches
CaughtByLoader == {"FileNotFoundError", "JSONDecodeError"}

\* iterating a JSON value: a list gives its members, a str its characters
\* (none of them a dict), a number raises TypeError
IterateGraph(graph) ==
    CASE graph.t = "list" -> Returned(graph.nodes)
      [] graph.t = "string" -> Returned(<<ScalarNode>>)
      [] OTHER -> Raised("TypeError")

RECURSIVE ExtendFromItems(_, _)
\* for item in data: if '@graph' in item: graph.extend(item['@graph'])
ExtendFromItems(items, graph) ==
    IF items = <<>> THEN Returned(graph)
    ELSE LET item == Head(items)
         IN  IF item.t = "number" THEN Raised("TypeError")
             ELSE IF item.t = "string" \/ ~item.hasGraph THEN ExtendFromItems(Tail(items), graph)
             ELSE LET it == IterateGraph(item.graph)
                  IN  IF it.raised # "none" THEN it
                      ELSE ExtendFromItems(Tail(items), graph \o it.value)

\* "Navigate into the graph": the node list, or an early return of {}
NavigateGraph(data) ==
    IF data.t = "dict" /\ data.hasGraph THEN IterateGraph(data.graph)
    ELSE IF data.t = "list" THEN ExtendFromItems(data.items, <<>>)
    ELSE Returned(<<>>)

\* types = concept.get('@type', []); a str becomes a one-element list
NodeTypes(node) ==
    CASE node.typeKind = "absent" -> <<>>
      [] node.typeKind = "str" -> <<node.types[1]>>
      [] OTHER -> node.types

\* the nodes the loop processes: dicts with '@id' whose types hold SKOS_CONCEPT
IsConceptNode(node) ==
    /\ node.t = "dict"
    /\ node.hasId
    /\ SKOS_CONCEPT \in Range(NodeTypes(node))

\* broader_id = broader[0].get('@id') if broader else None
BroaderId(node) ==
    LET broader == IF node.broaderKind = "absent" THEN <<>>
                   ELSE IF node.broaderKind = "dict" THEN <<node.broader[1]>>
                   ELSE node.broader
    IN  IF broader # <<>> THEN broader[1] ELSE None

----------------------------------------------------------------------------
(* src/server.py: load_elsst_data and build_search_index *)

\* the try statement and "Navigate into the graph", the same in both loaders:
\* the node list to process, an early return of {} (no nodes), or an exception
\* the try statement does not catch
LoadGraph(src) ==
    LET loaded == JsonLoad(src)
    IN  IF loaded.raised \in CaughtByLoader THEN Returned(<<>>)
        ELSE IF loaded.raised # "none" THEN loaded
        ELSE NavigateGraph(loaded.value)

RECURSIVE PrefLabels(_, _)
\* for label in concept.get(SKOS_PREF_LABEL, []):
\*     if lang and value: pref_labels[lang] = value
PrefLabels(labels, pref_labels) ==
    IF labels = <<>> THEN pref_labels
    ELSE LET label == Head(labels)
             next == IF label.language # <<>> /\ label.value # <<>>
                     THEN DictPut(pref_labels, label.language, label.value)
                     ELSE pref_labels
         IN  Strict(next, PrefLabels(Tail(labels), next))

RECURSIVE AltLabels(_, _)
\* for label in concept.get(SKOS_ALT_LABEL, []):
\*     if lang and value: alt_labels.setdefault(lang, []).append(value)
AltLabels(labels, alt_labels) ==
    IF labels = <<>> THEN alt_labels
    ELSE LET label == Head(labels)
             next == IF label.language # <<>> /\ label.value # <<>>
                     THEN DictPut(alt_labels, label.language,
                                  Append(DictGet(alt_labels, label.language, <<>>),
                                         label.value))
                     ELSE alt_labels
         IN  Strict(next, AltLabels(Tail(labels), next))

\* the record stored for one Concept node
ConceptRecord(node) ==
    [id |-> node.id,
     prefLabels |-> PrefLabels(node.pref, <<>>),
     altLabels |-> AltLabels(node.alt, <<>>),
     broader |-> BroaderId(node)]

RECURSIVE ProcessGraph(_, _)
\* for concept in graph: ... processed_data[concept_id] = {...}
ProcessGraph(graph, processed_data) ==
    IF graph = <<>> THEN processed_data
    ELSE LET concept == Head(graph)
             next == IF IsConceptNode(concept)
                     THEN DictPut(processed_data, concept.id, ConceptRecord(concept))
                     ELSE processed_data
         IN  Strict(next, ProcessGraph(Tail(graph), next))

\* load_elsst_data(filepath) of src/server.py
load_elsst_data(src) ==
    LET graph == LoadGraph(src)
    IN  IF graph.raised # "none" THEN graph
        ELSE Returned(ProcessGraph(graph.value, <<>>))

RECURSIVE IndexLabels(_, _, _)
\* search_index.setdefault(lang, []).append((label.lower(), concept_id)) for one
\* list of <<lang, label>> entries
IndexLabels(entries, concept_id, search_index) ==
    IF entries = <<>> THEN search_index
    ELSE LET lang == Head(entries)[1]
             label == Head(entries)[2]
             next == DictPut(search_index, lang,
                             Append(DictGet(search_index, lang, <<>>),
                                    <<Lower(label), concept_id>>))
         IN  Strict(next, IndexLabels(Tail(entries), concept_id, next))

RECURSIVE FlattenAlt(_)
\* the <<lang, label>> entries of an altLabels dict, in iteration order
FlattenAlt(alt_labels) ==
    IF alt_labels = <<>> THEN <<>>
    ELSE LET lang == Head(alt_labels)[1]
             labels == Head(alt_labels)[2]
         IN  [i \in 1..Len(labels) |-> <<lang, labels[i]>>] \o FlattenAlt(Tail(alt_labels))

RECURSIVE IndexConcepts(_, _)
\* for concept_id, data in processed_data.items(): prefLabels, then altLabels
IndexConcepts(items, search_index) ==
    IF items = <<>> THEN search_index
    ELSE LET concept_id == Head(items)[1]
             data == Head(items)[2]
             withPref == IndexLabels(data.prefLabels, concept_id, search_index)
             next == IndexLabels(FlattenAlt(data.altLabels), concept_id, withPref)
         IN  Strict(next, IndexConcepts(Tail(items), next))

\* build_search_index(processed_data)
build_search_index(processed_data) == IndexConcepts(processed_data, <<>>)

----------------------------------------------------------------------------
(* src/app/server.py: load_elsst_data *)

RECURSIVE EnglishPrefLabel(_)
\* pref_label = ""; the first label whose @language is 'en' sets it and breaks
EnglishPrefLabel(labels) ==
    IF labels = <<>> THEN <<>>
    ELSE IF Head(labels).language = <<"e", "n">> THEN Head(labels).value
    ELSE EnglishPrefLabel(Tail(labels))

\* alt_labels: every truthy @value, whatever its language
AllAltLabels(labels) == SelectSeq([i \in 1..Len(labels) |-> labels[i].value],
                                  LAMBDA val : val # <<>>)

\* the record stored for one Concept node
AppConceptRecord(node) ==
    [id |-> node.id,
     prefLabel |-> EnglishPrefLabel(node.pref),
     altLabel |-> AllAltLabels(node.alt),
     broader |-> BroaderId(node)]

RECURSIVE AppProcessGraph(_, _)
\* for concept in graph: ... processed_data[concept_id] = {...}
AppProcessGraph(graph, processed_data) ==
    IF graph = <<>> THEN processed_data
    ELSE LET concept == Head(graph)
             next == IF IsConceptNode(concept)
                     THEN DictPut(processed_data, concept.id, AppConceptRecord(concept))
                     ELSE processed_data
         IN  Strict(next, AppProcessGraph(Tail(graph), next))

\* load_elsst_data(filepath) of src/app/server.py
app_load_elsst_data(src) ==
    LET graph == LoadGraph(src)
    IN  IF graph.raised # "none" THEN graph
        ELSE Returned(AppProcessGraph(graph.value, <<>>))

----------------------------------------------------------------------------
(* src/app/server.py: the query side *)

\* for _ in range(20)
HOP_LIMIT == 20

\* get_concept_by_id(concept_id): the optional record
get_concept_by_id(concept_id) ==
    IF DictHas(APP_ELSST_DATA, concept_id)
    THEN Some(DictGet(APP_ELSST_DATA, concept_id, None))
    ELSE None

RECURSIVE HierarchyLoop_NoStoreCheck(_, _, _)
\* the loop with hierarchy.add(current_id) moved before `if concept`
HierarchyLoop_NoStoreCheck(current_id, hierarchy, i) ==
    IF i = HOP_LIMIT THEN [ids |-> hierarchy, steps |-> i]
    ELSE IF ~Truthy(current_id) THEN [ids |-> hierarchy, steps |-> i + 1]
    ELSE LET concept == get_concept_by_id(current_id[1])
             next == hierarchy \cup {current_id[1]}
         IN  IF concept # None
             THEN Strict(next, HierarchyLoop_NoStoreCheck(concept[1].broader, next, i + 1))
             ELSE [ids |-> next, steps |-> i + 1]

RECURSIVE HierarchyLoop_ExtraPass(_, _, _)
\* the loop with range(21): 20 hops after the pass that takes the start
HierarchyLoop_ExtraPass(current_id, hierarchy, i) ==
    IF i = HOP_LIMIT + 1 THEN [ids |-> hierarchy, steps |-> i]
    ELSE IF ~Truthy(current_id) THEN [ids |-> hierarchy, steps |-> i + 1]
    ELSE LET concept == get_concept_by_id(current_id[1])
         IN  IF concept # None
             THEN LET next == hierarchy \cup {current_id[1]}
                  IN  Strict(next, HierarchyLoop_ExtraPass(concept[1].broader, next, i + 1))
             ELSE [ids |-> hierarchy, steps |-> i + 1]

RECURSIVE HierarchyLoop(_, _, _)
\* the for loop of get_parent_hierarchy, entered for the i-th time with
\* current_id (an optional str) and the hierarchy collected so far; the result
\* is the hierarchy and the number of iterations entered
HierarchyLoop(current_id, hierarchy, i) ==
    IF i = HOP_LIMIT THEN [ids |-> hierarchy, steps |-> i]
    ELSE IF ~Truthy(current_id) THEN [ids |-> hierarchy, steps |-> i + 1]
    ELSE LET concept == get_concept_by_id(current_id[1])
         IN  IF concept # None
             THEN LET next == hierarchy \cup {current_id[1]}
                  IN  Strict(next, HierarchyLoop(concept[1].broader, next, i + 1))
             ELSE [ids |-> hierarchy, steps |-> i + 1]

\* the hierarchy without the parents: the concept alone
get_parent_hierarchy_Alone(concept_id) ==
    [ids |-> IF get_concept_by_id(concept_id) # None THEN {concept_id} ELSE {}, steps |-> 1]

\* get_parent_hierarchy(concept_id)
get_parent_hierarchy(concept_id) == HierarchyLoop(Some(concept_id), {}, 0)

\* to_skgif_topic with the parent named by its minted global id
to_skgif_topic_MintedParent(concept_data) ==
    LET local_id == concept_data.id
        topic == [id |-> SKG_IF_BASE_URL \o Quote(local_id),
                  type |-> "Topic",
                  local_identifier |-> local_id,
                  name |-> concept_data.prefLabel,
                  source |-> [id |-> ELSST_DATASOURCE_ID]]
        withAlt == IF concept_data.altLabel # <<>>
                   THEN topic @@ [alternate_name |-> concept_data.altLabel]
                   ELSE topic
    IN  IF Truthy(concept_data.broader)
        THEN withAlt @@ [parent_topic |->
                            [type |-> "Topic",
                             local_identifier |->
                                 SKG_IF_BASE_URL \o Quote(concept_data.broader[1])]]
        ELSE withAlt

\* to_skgif_topic(concept_data)
to_skgif_topic(concept_data) ==
    LET local_id == concept_data.id
        topic == [id |-> SKG_IF_BASE_URL \o Quote(local_id),
                  type |-> "Topic",
                  local_identifier |-> local_id,
                  name |-> concept_data.prefLabel,
                  source |-> [id |-> ELSST_DATASOURCE_ID]]
        withAlt == IF concept_data.altLabel # <<>>
                   THEN topic @@ [alternate_name |-> concept_data.altLabel]
                   ELSE topic
    IN  IF Truthy(concept_data.broader)
        THEN withAlt @@ [parent_topic |-> [type |-> "Topic",
                                           local_identifier |-> concept_data.broader[1]]]
        ELSE withAlt

\* get_data_source()
get_data_source ==
    [id |-> ELSST_DATASOURCE_ID, type |-> "DataSource", local_identifier |-> "elsst-v5"]

RECURSIVE OrdersOf(_)
\* every list holding each element of S once
OrdersOf(S) ==
    IF S = {} THEN {<<>>}
    ELSE UNION {{<<x>> \o rest : rest \in OrdersOf(S \ {x})} : x \in S}

\* the orders in which Python may iterate a set of str (the order follows the
\* strings' hashes, which change with the process's hash seed): every order for
\* a set of up to MaxShuffle elements, every rotation of the sorted order above
IterationOrders(S) ==
    IF Cardinality(S) <= MaxShuffle THEN OrdersOf(S)
    ELSE LET sorted == Sorted(S)
             n == Len(sorted)
         IN  {[i \in 1..n |-> sorted[((i + k - 1) % n) + 1]] : k \in 0..(n - 1)}

\* "Find concepts that match the query": the matching_concept_ids set
AppMatchingConceptIds(query) ==
    {APP_ELSST_DATA[i][1] : i \in
        {j \in 1..Len(APP_ELSST_DATA) :
            LET data == APP_ELSST_DATA[j][2]
            IN  \/ Contains(Lower(data.prefLabel), query)
                \/ \E a \in 1..Len(data.altLabel) : Contains(Lower(data.altLabel[a]), query)}}

\* all_related_ids: the union of the matches' hierarchies
AllRelatedIds(matching_concept_ids) ==
    UNION {get_parent_hierarchy(concept_id).ids : concept_id \in matching_concept_ids}

RECURSIVE GraphEntities(_)
\* for concept_id in all_related_ids (taken in the order given):
\*     if concept_data: graph_entities.append(to_skgif_topic(concept_data))
GraphEntities(order) ==
    IF order = <<>> THEN <<>>
    ELSE LET concept_data == get_concept_by_id(Head(order))
         IN  (IF concept_data # None THEN <<to_skgif_topic(concept_data[1])>> ELSE <<>>)
             \o GraphEntities(Tail(order))

\* the Query(..., min_length=3) check FastAPI makes before the handler runs
AppQueryValid(q) == StrLen(q) >= 3

\* autocomplete(q), its set all_related_ids iterated in the given order
autocomplete(q, order) ==
    IF ~AppQueryValid(q)
    THEN [op |-> "autocomplete", request |-> q, status |-> 422,
          error |-> "string_too_short", body |-> <<>>]
    ELSE [op |-> "autocomplete", request |-> q, status |-> 200, error |-> "",
          body |-> [graph |-> <<get_data_source>> \o GraphEntities(order)]]

----------------------------------------------------------------------------
(* src/server.py: the query side *)

\* format_topic_for_response(concept_data)
format_topic_for_response(concept_data) ==
    [local_identifier |-> concept_data.id,
     identifiers |-> <<>>,
     entity_type |-> "topic",
     labels |-> concept_data.prefLabels]

\* the Query(..., min_length=19) check FastAPI makes before the handler runs
FILTER_MIN_LENGTH == 19

\* a 422 of topic_result
TopicResultError(filter, type) ==
    [op |-> "topic_result", request |-> filter, status |-> 422, error |-> type,
     body |-> <<>>]

RECURSIVE ParseFilter(_, _)
\* for part in filter.split(','):
\*     key, value = part.split(':', 1); filter_params[key.strip()] = value.strip()
\* the unpacking raises ValueError for a part that holds no ':'
ParseFilter(parts, filter_params) ==
    IF parts = <<>> THEN Returned(filter_params)
    ELSE LET kv == Split1(Head(parts), ":")
         IN  IF Len(kv) < 2 THEN Raised("ValueError")
             ELSE ParseFilter(Tail(parts),
                      DictPut(filter_params, Strip(kv[1]), Strip(kv[2])))

\* label.startswith(query) in place of query in label
MatchingConceptIds_StartsWith(query, search_lang) ==
    LET labels_for_lang == DictGet(SEARCH_INDEX, search_lang, <<>>)
    IN  {labels_for_lang[i][2] : i \in
            {j \in 1..Len(labels_for_lang) :
                /\ Len(query) <= Len(labels_for_lang[j][1])
                /\ SubSeq(labels_for_lang[j][1], 1, Len(query)) = query}}

\* for label, concept_id in labels_for_lang: if query in label: add concept_id
MatchingConceptIds(query, search_lang) ==
    LET labels_for_lang == DictGet(SEARCH_INDEX, search_lang, <<>>)
    IN  {labels_for_lang[i][2] : i \in
            {j \in 1..Len(labels_for_lang) : Contains(labels_for_lang[j][1], query)}}

RECURSIVE Results(_)
\* for concept_id in sorted(list(matching_concept_ids)):
\*     if concept_data: results.append(format_topic_for_response(concept_data))
Results(sorted_ids) ==
    IF sorted_ids = <<>> THEN <<>>
    ELSE (IF DictHas(ELSST_DATA, Head(sorted_ids))
          THEN <<format_topic_for_response(DictGet(ELSST_DATA, Head(sorted_ids), None))>>
          ELSE <<>>)
         \o Results(Tail(sorted_ids))

\* topic_result(filter)
topic_result(filter) ==
    IF StrLen(filter) < FILTER_MIN_LENGTH THEN TopicResultError(filter, "string_too_short")
    ELSE
    LET parsed == ParseFilter(Split(filter, ","), <<>>)
    IN  IF parsed.raised = "ValueError" THEN TopicResultError(filter, "value_error.format")
        ELSE
        LET filter_params == parsed.value
            search_term == IF DictHas(filter_params, <<KEY_LABELS>>)
                           THEN Some(DictGet(filter_params, <<KEY_LABELS>>, None))
                           ELSE None
        IN  IF ~Truthy(search_term) \/ StrLen(search_term[1]) < 3
            THEN TopicResultError(filter, "value_error.missing")
            ELSE
            LET language_code == DictGet(filter_params, <<KEY_LANGUAGE>>, <<"e", "n">>)
            IN  IF ~MatchesLanguagePattern(language_code)
                THEN TopicResultError(filter, "value_error.pattern")
                ELSE
                LET query == Lower(search_term[1])
                    results == Results(Sorted(MatchingConceptIds(query, language_code)))
                IN  [op |-> "topic_result", request |-> filter, status |-> 200,
                     error |-> "",
                     body |-> [meta |-> [count |-> Len(results), page |-> 0,
                                         page_size |-> 0],
                               results |-> results]]

\* topic_single(topic_id)
topic_single(topic_id) ==
    IF ~DictHas(ELSST_DATA, topic_id)
    THEN [op |-> "topic_single", request |-> topic_id, status |-> 404,
          error |-> "not_found", body |-> <<>>]
    ELSE LET concept_data == DictGet(ELSST_DATA, topic_id, None)
             topic_graph_item == [local_identifier |-> concept_data.id,
                                  entity_type |-> "topic",
                                  labels |-> concept_data.prefLabels]
         IN  [op |-> "topic_single", request |-> topic_id, status |-> 200, error |-> "",
              body |-> [graph |-> <<topic_graph_item>>]]

\* min(10, len(...)) of show_index_data
SAMPLE_SIZE == 10

\* the smaller of two numbers
Min(a, b) == IF a < b THEN a ELSE b

\* show_index_data(): random.sample copies what it draws from; of the samples
\* the response keeps their sizes
show_index_data ==
    [op |-> "show_index_data", request |-> <<>>, status |-> 200, error |-> "",
     body |-> [elsst_data_sample |-> Min(SAMPLE_SIZE, Len(ELSST_DATA)),
               search_index_sample |->
                   [i \in 1..Len(SEARCH_INDEX) |->
                       <<SEARCH_INDEX[i][1], Min(SAMPLE_SIZE, Len(SEARCH_INDEX[i][2]))>>]]]

----------------------------------------------------------------------------
(* The data files and requests the model draws from *)

EN == <<"e", "n">>
DE == <<"d", "e">>

\* the decimal digits
DigitChar(n) == <<"0", "1", "2", "3", "4", "5", "6", "7", "8", "9">>[n + 1]

\* the @id of the k-th node of a generated @graph; sorted() orders them
\* "B" < "a" < "a:b" < "c:4", which is not their order in the file
NodeId(k) ==
    CASE k = 1 -> <<"a">>
      [] k = 2 -> <<"B">>
      [] k = 3 -> <<"a", ":", "b">>
      [] OTHER -> <<"c", ":", DigitChar(k % 10)>>

\* an @id no node carries
DANGLING_ID == <<"z">>

\* the @id of the k-th node of a generated chain
ChainId(k) == <<"c", DigitChar((k \div 10) % 10), DigitChar(k % 10)>>

\* the label sets of the generated nodes: a single English prefLabel; several
\* prefLabels of one language and altLabels of two; a prefLabel and an altLabel
\* without value or without language, and an altLabel equal to the prefLabel
PrefOf(c) ==
    CASE c = 1 -> <<Label(EN, <<"A", "b", "a">>)>>
      [] c = 2 -> <<Label(EN, <<"b", "a", "b">>), Label(DE, <<"A", "b", "a">>),
                    Label(EN, <<"B", "b", "a">>)>>
      [] OTHER -> <<Label(EN, <<"a", "b", "b">>), Label(EN, <<>>)>>

AltOf(c) ==
    CASE c = 1 -> <<>>
      [] c = 2 -> <<Label(EN, <<"b", "b", "a", "b">>), Label(DE, <<"a", "a", "b">>)>>
      [] OTHER -> <<Label(EN, <<"a", "b", "b">>), Label(<<>>, <<"a", "b", "a">>),
                    Label(EN, <<"B", "a", "b">>)>>

\* the broader of node k of n: none, the node before it (the last one for the
\* first), the first node, or an @id outside the file
BroaderChoices(k, n) ==
    {None, Some(NodeId(IF k = 1 THEN n ELSE k - 1)), Some(NodeId(1)), Some(DANGLING_ID)}

\* the @graph lists of n Concept nodes: node k carries label set
\* ((k + shift) % 3) + 1 and any of its broader choices
GraphsOf(n) ==
    {[k \in 1..n |-> ConceptNode(NodeId(k), PrefOf(((k + shift) % 3) + 1),
                                  AltOf(((k + shift) % 3) + 1), br[k])] :
        shift \in 0..2,
        br \in {f \in [1..n -> UNION {BroaderChoices(k, n) : k \in 1..n}] :
                   \A k \in 1..n : f[k] \in BroaderChoices(k, n)}}

GraphFiles ==
    {FileJson(JsonDict(TRUE, GraphList(g))) : g \in UNION {GraphsOf(n) : n \in 1..MaxNodes}}

\* a chain of len nodes, each the broader of the one before it; the last one's
\* broader is none, outside the file, or the first node (a cycle)
ChainGraph(len, tail) ==
    [k \in 1..len |->
        ConceptNode(ChainId(k), PrefOf(IF k = 1 THEN 1 ELSE 3), <<>>,
                    IF k < len THEN Some(ChainId(k + 1)) ELSE tail)]

ChainFiles ==
    {FileJson(JsonDict(TRUE, GraphList(ChainGraph(len, tail)))) :
        len \in (HOP_LIMIT - 1)..MaxChain,
        tail \in {None, Some(DANGLING_ID), Some(ChainId(1))}}

Node1 == ConceptNode(NodeId(1), PrefOf(1), AltOf(1), None)
Node2 == ConceptNode(NodeId(2), PrefOf(2), AltOf(2), Some(NodeId(1)))

\* nodes the loaders skip or read in another way than a plain Concept
OddNodes ==
    {ScalarNode,
     ObjectNode(FALSE, <<>>, "str", <<SKOS_CONCEPT>>, PrefOf(3), <<>>, "absent", <<>>),
     ObjectNode(TRUE, NodeId(3), "absent", <<>>, PrefOf(3), <<>>, "absent", <<>>),
     ObjectNode(TRUE, NodeId(3), "str", <<OTHER_TYPE>>, PrefOf(3), <<>>, "absent", <<>>),
     ObjectNode(TRUE, NodeId(3), "list", <<OTHER_TYPE>>, PrefOf(3), <<>>, "absent", <<>>),
     ObjectNode(TRUE, NodeId(3), "list", <<OTHER_TYPE, SKOS_CONCEPT>>, PrefOf(3),
                AltOf(3), "dict", <<Some(NodeId(2))>>),
     ObjectNode(TRUE, NodeId(3), "str", <<SKOS_CONCEPT>>, PrefOf(3), AltOf(3),
                "list", <<Some(NodeId(2)), Some(NodeId(1))>>),
     ObjectNode(TRUE, NodeId(3), "str", <<SKOS_CONCEPT>>, PrefOf(3), AltOf(3),
                "list", <<>>),
     ObjectNode(TRUE, NodeId(3), "str", <<SKOS_CONCEPT>>, PrefOf(3), AltOf(3),
                "dict", <<None>>),
     ObjectNode(TRUE, NodeId(3), "str", <<SKOS_CONCEPT>>, <<>>, <<>>, "absent", <<>>),
     ObjectNode(TRUE, <<>>, "str", <<SKOS_CONCEPT>>, PrefOf(3), AltOf(3),
                "dict", <<Some(NodeId(2))>>),
     ObjectNode(TRUE, NodeId(3), "str", <<SKOS_CONCEPT>>, PrefOf(3), AltOf(3),
                "dict", <<Some(<<>>)>>),
     ConceptNode(NodeId(1), PrefOf(3), AltOf(3), Some(NodeId(2)))}

\* files whose top level or whose nodes are not the plain case
ShapeFiles ==
    {FileMissing, FileUndecodable, FileMalformed,
     FileJson(JsonScalar),
     FileJson(JsonDict(FALSE, GraphList(<<>>))),
     FileJson(JsonDict(TRUE, GraphNumber)),
     FileJson(JsonDict(TRUE, GraphString)),
     FileJson(JsonDict(TRUE, GraphList(<<>>))),
     FileJson(JsonList(<<>>)),
     FileJson(JsonList(<<ItemNumber>>)),
     FileJson(JsonList(<<JsonDict(TRUE, GraphNumber)>>)),
     FileJson(JsonList(<<ItemString, JsonDict(TRUE, GraphString),
                         JsonDict(TRUE, GraphList(<<Node1>>))>>)),
     FileJson(JsonList(<<JsonDict(TRUE, GraphList(<<Node1>>)),
                         JsonDict(FALSE, GraphList(<<>>)),
                         JsonDict(TRUE, GraphList(<<Node2>>))>>))}
    \cup {FileJson(JsonDict(TRUE, GraphList(<<Node1, Node2, odd>>))) : odd \in OddNodes}

Sources == ShapeFiles \cup GraphFiles \cup ChainFiles

\* "cf.search.labels:<value>" and "cf.search.language:<value>"
LabelsPart(value) == <<KEY_LABELS, ":">> \o value
LanguagePart(value) == <<KEY_LANGUAGE, ":">> \o value

\* search terms: one with a capital, one of another language's labels
Terms == {<<"a", "b", "A">>, <<"b", "a", "b">>, <<"a", "b", "b">>, <<"a", "a", "b">>}

\* a part that sets a key other than the two
OtherPart == <<"a", ":", "b">>

FirstParts ==
    {LabelsPart(term) : term \in Terms}
    \cup {LabelsPart(<<"a", "b">>),
          LabelsPart(<<" ", "a", "b", " ">>),
          LabelsPart(<<" ", "a", "b", "b", " ">>),
          <<" ", KEY_LABELS, " ", ":">> \o <<"b", "a", "b">>,
          LabelsPart(<<"a", ":", "b">>),
          LabelsPart(<<>>),
          <<KEY_LABELS>>,
          LanguagePart(DE),
          OtherPart,
          <<>>}

SecondParts ==
    {LanguagePart(EN), LanguagePart(DE), LanguagePart(<<" ", "d", "e", " ">>),
     LanguagePart(<<"E", "N">>), LanguagePart(<<"e">>), LanguagePart(<<>>),
     LanguagePart(<<"z", "z">>),
     LabelsPart(<<"a", "b">>), LabelsPart(<<"b", "a", "b">>),
     OtherPart, <<>>}

LaterParts == {LanguagePart(DE)}

RECURSIVE FiltersOf(_)
\* the filter strings of n comma-separated parts
FiltersOf(n) ==
    IF n = 1 THEN FirstParts
    ELSE {f \o <<",">> \o p : f \in FiltersOf(n - 1),
                              p \in IF n = 2 THEN SecondParts ELSE LaterParts}

Filters == UNION {FiltersOf(n) : n \in 1..MaxParts}

\* topic ids asked of topic_single
TopicIds == {NodeId(1), NodeId(2), NodeId(3), DANGLING_ID, <<>>, ChainId(1)}

\* q strings asked of autocomplete
Queries == Terms \cup {<<"a", "b">>, <<"B", "B", "A", "B">>}

----------------------------------------------------------------------------
(* The two processes *)

NoResponse == [op |-> "none"]

Init ==
    /\ source \in Sources
    /\ pcFlat = "boot"
    /\ ELSST_DATA = <<>>
    /\ SEARCH_INDEX = <<>>
    /\ pcApp = "boot"
    /\ APP_ELSST_DATA = <<>>
    /\ response = NoResponse

\* src/server.py:149-151, run when the module is imported: an exception that
\* leaves load_elsst_data ends the process before it serves
Startup ==
    /\ pcFlat = "boot"
    /\ LET loaded == load_elsst_data(source)
       IN  IF loaded.raised # "none"
           THEN /\ pcFlat' = "crashed"
                /\ UNCHANGED <<ELSST_DATA, SEARCH_INDEX>>
           ELSE /\ pcFlat' = "serving"
                /\ ELSST_DATA' = loaded.value
                /\ SEARCH_INDEX' = build_search_index(loaded.value)
    /\ UNCHANGED <<source, pcApp, APP_ELSST_DATA, response>>

\* src/app/server.py:117-119
AppStartup ==
    /\ pcApp = "boot"
    /\ LET loaded == app_load_elsst_data(source)
       IN  IF loaded.raised # "none"
           THEN /\ pcApp' = "crashed"
                /\ UNCHANGED APP_ELSST_DATA
           ELSE /\ pcApp' = "serving"
                /\ APP_ELSST_DATA' = loaded.value
    /\ UNCHANGED <<source, pcFlat, ELSST_DATA, SEARCH_INDEX, response>>

\* GET /api/topics?filter=... of src/server.py
HandleTopicResult ==
    /\ pcFlat = "serving"
    /\ response = NoResponse
    /\ \E filter \in Filters : response' = topic_result(filter)
    /\ UNCHANGED <<source, pcFlat, ELSST_DATA, SEARCH_INDEX, pcApp, APP_ELSST_DATA>>

\* GET /api/topics/{topic_id} of src/server.py
HandleTopicSingle ==
    /\ pcFlat = "serving"
    /\ response = NoResponse
    /\ \E topic_id \in TopicIds : response' = topic_single(topic_id)
    /\ UNCHANGED <<source, pcFlat, ELSST_DATA, SEARCH_INDEX, pcApp, APP_ELSST_DATA>>

\* show_index_data with random.shuffle(items) in place of random.sample: the
\* entries of each language of the index are reordered in place
HandleShowIndexData_Shuffle ==
    /\ pcFlat = "serving"
    /\ response = NoResponse
    /\ response' = show_index_data
    /\ SEARCH_INDEX' = [i \in 1..Len(SEARCH_INDEX) |->
                           <<SEARCH_INDEX[i][1],
                             [k \in 1..Len(SEARCH_INDEX[i][2]) |->
                                 SEARCH_INDEX[i][2][Len(SEARCH_INDEX[i][2]) + 1 - k]]>>]
    /\ UNCHANGED <<source, pcFlat, ELSST_DATA, pcApp, APP_ELSST_DATA>>

\* GET /show_index_data of src/server.py
HandleShowIndexData ==
    /\ pcFlat = "serving"
    /\ response = NoResponse
    /\ response' = show_index_data
    /\ UNCHANGED <<source, pcFlat, ELSST_DATA, SEARCH_INDEX, pcApp, APP_ELSST_DATA>>

\* GET /api/topics?q=... of src/app/server.py
HandleAutocomplete ==
    /\ pcApp = "serving"
    /\ response = NoResponse
    /\ \E q \in Queries :
          \E order \in IterationOrders(AllRelatedIds(AppMatchingConceptIds(Lower(q)))) :
              response' = autocomplete(q, order)
    /\ UNCHANGED <<source, pcFlat, ELSST_DATA, SEARCH_INDEX, pcApp, APP_ELSST_DATA>>

\* the response is sent and the next request is taken up
Deliver ==
    /\ response # NoResponse
    /\ response' = NoResponse
    /\ UNCHANGED <<source, pcFlat, ELSST_DATA, SEARCH_INDEX, pcApp, APP_ELSST_DATA>>

Next ==
    \/ Startup
    \/ AppStartup
    \/ HandleTopicResult
    \/ HandleTopicSingle
    \/ HandleShowIndexData
    \/ HandleAutocomplete
    \/ Deliver

Spec == Init /\ [][Next]_vars

----------------------------------------------------------------------------
(* What the claims speak of, stated on the stores and the request text *)

\* the concept ids of a store
StoreIds(store) == {store[i][1] : i \in 1..Len(store)}

\* s without the blanks at its two ends
Trimmed(s) ==
    LET ends == CHOOSE ab \in (1..(Len(s) + 1)) \X (0..Len(s)) :
                    /\ \A i \in 1..(ab[1] - 1) : s[i] = " "
                    /\ \A i \in (ab[2] + 1)..Len(s) : s[i] = " "
                    /\ \/ ab[1] > ab[2]
                       \/ s[ab[1]] # " " /\ s[ab[2]] # " "
    IN  SubSeq(s, ends[1], ends[2])

\* the positions at which a comma-separated part of the filter f starts
PartStarts(f) == {i \in 1..(Len(f) + 1) : i = 1 \/ f[i - 1] = ","}

\* the part of f that starts at position i
PartAt(f, i) ==
    LET last == CHOOSE j \in (i - 1)..Len(f) :
                    /\ j = Len(f) \/ f[j + 1] = ","
                    /\ \A k \in i..j : f[k] # ","
    IN  SubSeq(f, i, last)

HasColon(part) == \E i \in 1..Len(part) : part[i] = ":"

\* the key and the value of a part that holds a ':'
KeyOfPart(part) ==
    Trimmed(SubSeq(part, 1, (CHOOSE i \in 1..Len(part) :
                                part[i] = ":" /\ \A j \in 1..(i - 1) : part[j] # ":") - 1))
ValueOfPart(part) ==
    Trimmed(SubSeq(part, (CHOOSE i \in 1..Len(part) :
                             part[i] = ":" /\ \A j \in 1..(i - 1) : part[j] # ":") + 1,
                   Len(part)))

\* the positions of the parts of f that give the key
PartsWithKey(f, key) ==
    {i \in PartStarts(f) : HasColon(PartAt(f, i)) /\ KeyOfPart(PartAt(f, i)) = <<key>>}

\* the value f gives the key: that of the last part with the key
ValueOfKey(f, key) ==
    ValueOfPart(PartAt(f, CHOOSE i \in PartsWithKey(f, key) :
                              \A j \in PartsWithKey(f, key) : j <= i))

\* the language a filter asks for
LanguageOf(f) ==
    IF PartsWithKey(f, KEY_LANGUAGE) = {} THEN EN ELSE ValueOfKey(f, KEY_LANGUAGE)

\* term is, whatever the case of the letters, inside label
InsideIgnoringCase(term, label) ==
    \E i \in 0..(Len(label) - Len(term)) :
        \A k \in 1..Len(term) : LowerChar(label[i + k]) = LowerChar(term[k])

\* the labels a concept record of src/server.py holds in lang
LabelsIn(record, lang) ==
    {record.prefLabels[i][2] : i \in {j \in 1..Len(record.prefLabels) :
                                        record.prefLabels[j][1] = lang}}
    \cup UNION {Range(record.altLabels[i][2]) :
                   i \in {j \in 1..Len(record.altLabels) : record.altLabels[j][1] = lang}}

\* the concepts of ELSST_DATA with a label in lang that holds term
FlatMatches(term, lang) ==
    {ELSST_DATA[i][1] : i \in {j \in 1..Len(ELSST_DATA) :
        \E label \in LabelsIn(ELSST_DATA[j][2], lang) : InsideIgnoringCase(term, label)}}

\* the concept ids of a flat result list
ResultIds(results) == {results[i].local_identifier : i \in 1..Len(results)}

FlatAnswered == response.op = "topic_result" /\ response.status = 200

\* C1: a concept id is among the results of topic_result exactly when the
\* lowercased term is inside the concept's lowercased prefLabel of the asked
\* language or one of its lowercased altLabels of that language; labels of
\* other languages never make a match
C1_SearchSoundAndComplete ==
    FlatAnswered =>
        ResultIds(response.body.results)
            = FlatMatches(ValueOfKey(response.request, KEY_LABELS),
                          LanguageOf(response.request))

\* C1 witness: a search answered with some concepts and without another one,
\* which holds the term in a label of a language that was not asked for
C1_Witness ==
    /\ FlatAnswered
    /\ response.body.results # <<>>
    /\ \E lang \in {EN, DE} :
          /\ lang # LanguageOf(response.request)
          /\ FlatMatches(ValueOfKey(response.request, KEY_LABELS), lang)
                 \ ResultIds(response.body.results) # {}

----------------------------------------------------------------------------
(* Broader chains of the full-hierarchy service's store *)

\* the concepts of APP_ELSST_DATA whose prefLabel or one of whose altLabels
\* holds q
AppMatches(q) ==
    {APP_ELSST_DATA[i][1] : i \in {j \in 1..Len(APP_ELSST_DATA) :
        \/ InsideIgnoringCase(q, APP_ELSST_DATA[j][2].prefLabel)
        \/ \E label \in Range(APP_ELSST_DATA[j][2].altLabel) : InsideIgnoringCase(q, label)}}

\* the first `hops` ids of the broader chain of start, start included: the
\* chain ends at a concept without broader and where it leaves the store (an
\* id that is no key, or empty)
RECURSIVE ChainFrom(_, _)
ChainFrom(current, hops) ==
    IF hops = 0 \/ ~Truthy(current) THEN {}
    ELSE IF current[1] \notin StoreIds(APP_ELSST_DATA) THEN {}
    ELSE LET next == DictGet(APP_ELSST_DATA, current[1], None).broader
         IN  Strict(next, {current[1]} \cup ChainFrom(next, hops - 1))

ChainWithin(start, hops) == ChainFrom(Some(start), hops)

\* the whole chain: every distinct id on it until it ends or repeats
FullChain(start) == ChainWithin(start, Len(APP_ELSST_DATA) + 1)

\* the chain as far as the hop limit lets it be followed
CappedChain(start) == ChainWithin(start, HOP_LIMIT)

\* the concept ids of the topic nodes of a full-hierarchy graph
TopicIdsOf(graph) == {graph[i].local_identifier : i \in 2..Len(graph)}

AppAnswered == response.op = "autocomplete" /\ response.status = 200

StartIds == StoreIds(APP_ELSST_DATA) \cup {DANGLING_ID}

----------------------------------------------------------------------------
(* Loading *)

\* a JSON value that is an object with a list-valued graph field
GraphObject(item) == item.t = "dict" /\ item.hasGraph /\ item.graph.t = "list"

\* the input outcomes that are to give an empty store: a missing file, bytes
\* that are no UTF-8, malformed JSON, and JSON whose top level is neither an
\* object with a list-valued graph field nor a list of such objects
DegradedSource(src) ==
    \/ src.kind \in {"missing", "undecodable", "malformed"}
    \/ /\ src.kind = "json"
       /\ ~GraphObject(src.data)
       /\ ~(/\ src.data.t = "list"
            /\ \A i \in 1..Len(src.data.items) : GraphObject(src.data.items[i]))

\* C4 as stated: load_elsst_data never fails: whatever the input outcome, each
\* of the two processes gets past its startup and serves, and on a missing
\* file, undecodable bytes, malformed JSON or JSON of another top-level shape
\* it serves an empty store
C4_LoadNeverFails ==
    /\ pcFlat # "boot" =>
          /\ pcFlat = "serving"
          /\ DegradedSource(source) => ELSST_DATA = <<>> /\ SEARCH_INDEX = <<>>
    /\ pcApp # "boot" =>
          /\ pcApp = "serving"
          /\ DegradedSource(source) => APP_ELSST_DATA = <<>>

----------------------------------------------------------------------------
(* Filter validation *)

\* s is two lowercase letters
TwoLowercaseLetters(s) ==
    Len(s) = 2 /\ \A i \in 1..Len(s) : s[i] \in {"a", "b", "c", "d", "e", "n", "z"}

\* the filter text f is one the claim has rejected: a part without ':', no
\* cf.search.labels key, a trimmed cf.search.labels value of fewer than 3
\* characters, or a cf.search.language value that is not two lowercase letters
RejectedFilter(f) ==
    IF \E i \in PartStarts(f) : ~HasColon(PartAt(f, i)) THEN TRUE
    ELSE IF PartsWithKey(f, KEY_LABELS) = {} THEN TRUE
    ELSE IF StrLen(ValueOfKey(f, KEY_LABELS)) < 3 THEN TRUE
    ELSE /\ PartsWithKey(f, KEY_LANGUAGE) # {}
         /\ ~TwoLowercaseLetters(ValueOfKey(f, KEY_LANGUAGE))

\* C5: topic_result answers a filter with 422 and no results exactly when the
\* filter has a part without ':', or no cf.search.labels key, or a
\* cf.search.labels value shorter than 3 characters after trimming, or a
\* cf.search.language value that is not two lowercase letters; every other
\* filter is answered with a result envelope, searched in 'en' when the filter
\* gives no language; the handler ends in no other way
C5_FilterValidation ==
    response.op = "topic_result" =>
        /\ response.status \in {200, 422}
        /\ response.status = 422 <=> RejectedFilter(response.request)
        /\ response.status = 422 => response.body = <<>>
        /\ response.status = 200 =>
              /\ response.body.meta.count = Len(response.body.results)
              /\ PartsWithKey(response.request, KEY_LANGUAGE) = {} =>
                    ResultIds(response.body.results)
                        = FlatMatches(ValueOfKey(response.request, KEY_LABELS), EN)

\* C5 witness: a filter whose cf.search.labels value has 3 characters or more
\* as written and fewer than 3 after trimming has been answered with the 422
\* of the missing or short term
C5_Witness ==
    /\ response.op = "topic_result"
    /\ response.status = 422
    /\ response.error = "value_error.missing"
    /\ \E i \in PartStarts(response.request) :
          LET part == PartAt(response.request, i)
          IN  /\ HasColon(part)
              /\ KeyOfPart(part) = <<KEY_LABELS>>
              /\ Len(part) >= 5
              /\ Len(ValueOfPart(part)) = 2

----------------------------------------------------------------------------
(* Single-topic lookup *)

\* C6 as stated: topic_single answers an id that is no key of the store with
\* 404, and an id of the store with exactly one item, equal to the item
\* format_topic_for_response gives for the concept: the local identifier, the
\* empty identifiers placeholder, the entity-type tag and the whole
\* preferred-label map
C6_SingleIsFlatItem ==
    response.op = "topic_single" =>
        /\ response.status = 404 <=> response.request \notin StoreIds(ELSST_DATA)
        /\ response.status # 404 =>
              /\ response.status = 200
              /\ Len(response.body.graph) = 1
              /\ response.body.graph[1]
                     = format_topic_for_response(
                           DictGet(ELSST_DATA, response.request, None))

----------------------------------------------------------------------------
(* Presentation order *)

\* ids lists its concept identifiers in lexicographic order, each one once
StrictlyAscending(ids) == \A i \in 1..(Len(ids) - 1) : StrLess(ids[i], ids[i + 1])

\* C7 as stated: in both profiles the topics of an answer are sorted by
\* concept identifier, each concept once, whatever the iteration order of the
\* match set; in the flat profile meta.count is the number of distinct matching
\* concepts
C7_SortedPresentation ==
    /\ FlatAnswered =>
          /\ StrictlyAscending([i \in 1..Len(response.body.results) |->
                                  response.body.results[i].local_identifier])
          /\ response.body.meta.count
                 = Cardinality(FlatMatches(ValueOfKey(response.request, KEY_LABELS),
                                           LanguageOf(response.request)))
    /\ AppAnswered =>
          StrictlyAscending([i \in 1..(Len(response.body.graph) - 1) |->
                                response.body.graph[i + 1].local_identifier])

----------------------------------------------------------------------------
(* Load once, read many *)

\* C8: once a process serves, no step (no topic_result, topic_single,
\* autocomplete or show_index_data, answered with 200, 404 or 422, in whatever
\* order the handlers run) changes the Concept Store or the Index
C8_StoresReadOnly ==
    [][/\ pcFlat = "serving" => UNCHANGED <<ELSST_DATA, SEARCH_INDEX>>
       /\ pcApp = "serving" => UNCHANGED APP_ELSST_DATA]_vars

\* C8 witness: both processes serve stores of several concepts, the index
\* holds a language with several entries, and a query has ended in 404 or 422
C8_Witness ==
    /\ pcFlat = "serving"
    /\ pcApp = "serving"
    /\ Len(ELSST_DATA) > 1
    /\ Len(APP_ELSST_DATA) > 1
    /\ \E i \in 1..Len(SEARCH_INDEX) : Len(SEARCH_INDEX[i][2]) > 1
    /\ ELSST_DATA = load_elsst_data(source).value
    /\ SEARCH_INDEX = build_search_index(ELSST_DATA)
    /\ APP_ELSST_DATA = app_load_elsst_data(source).value
    /\ response.op # "none"
    /\ response.status \in {404, 422}

----------------------------------------------------------------------------
(* Preferred labels *)

\* the Concept nodes of the data file, in source order
ConceptNodesOf(src) == SelectSeq(LoadGraph(src).value, IsConceptNode)

\* the nodes a record comes from: of the nodes with one @id, the last
RecordNodes(src) ==
    LET nodes == ConceptNodesOf(src)
    IN  {nodes[i] : i \in {j \in 1..Len(nodes) :
                              \A k \in (j + 1)..Len(nodes) : nodes[k].id # nodes[j].id}}

\* the languages that occur in a list of label pairs
LanguagesOf(pairs) == {pairs[i].language : i \in 1..Len(pairs)} \ {<<>>}

\* the value of the last pair of the language in source order
LastValueOf(pairs, lang) ==
    pairs[CHOOSE i \in 1..Len(pairs) :
              /\ pairs[i].language = lang
              /\ \A j \in (i + 1)..Len(pairs) : pairs[j].language # lang].value

\* C9 as stated: in both loaders, for every Concept node and every language of
\* its preferred-label pairs, the record's preferred label of the language is
\* the value of the last pair of that language in source order, one label per
\* language
C9_LastSeenWins ==
    /\ pcFlat = "serving" =>
          \A node \in RecordNodes(source) :
              LET record == DictGet(ELSST_DATA, node.id, None)
              IN  /\ \A i, j \in 1..Len(record.prefLabels) :
                        record.prefLabels[i][1] = record.prefLabels[j][1] => i = j
                  /\ \A lang \in LanguagesOf(node.pref) :
                        /\ DictHas(record.prefLabels, lang)
                        /\ DictGet(record.prefLabels, lang, None)
                               = LastValueOf(node.pref, lang)
    /\ pcApp = "serving" =>
          \A node \in RecordNodes(source) :
              EN \in LanguagesOf(node.pref) =>
                  DictGet(APP_ELSST_DATA, node.id, None).prefLabel
                      = LastValueOf(node.pref, EN)

----------------------------------------------------------------------------
(* Full-hierarchy rendering *)

\* the expanded set of a query: the matches and the ancestors followed
ExpandedIds(q) == UNION {CappedChain(m) : m \in AppMatches(q)}

\* node renders the concept record: the name is the preferred label,
\* alternate_name is there exactly with alternate labels and lists them,
\* parent_topic is there exactly with a broader (a non-empty id) and names it
\* by its local identifier
RendersRecord(node, record) ==
    /\ node.type = "Topic"
    /\ node.local_identifier = record.id
    /\ node.name = record.prefLabel
    /\ "alternate_name" \in DOMAIN node <=> record.altLabel # <<>>
    /\ "alternate_name" \in DOMAIN node => node.alternate_name = record.altLabel
    /\ "parent_topic" \in DOMAIN node <=> Truthy(record.broader)
    /\ "parent_topic" \in DOMAIN node =>
          /\ DOMAIN node.parent_topic = {"type", "local_identifier"}
          /\ node.parent_topic.local_identifier = record.broader[1]
          /\ node.parent_topic.local_identifier
                 # SKG_IF_BASE_URL \o Quote(record.broader[1])

\* C10: the graph of an answer is the data-source node followed by one topic
\* node for each concept id of the expanded set and no other; each topic node
\* has the concept's preferred label as name, alternate_name exactly when the
\* concept has alternate labels, and parent_topic exactly when it has a
\* broader, naming the broader's local identifier and not its minted id
C10_FullHierarchyRendering ==
    AppAnswered =>
        LET graph == response.body.graph
        IN  /\ graph[1] = get_data_source
            /\ Len(graph) = 1 + Cardinality(ExpandedIds(response.request))
            /\ TopicIdsOf(graph) = ExpandedIds(response.request)
            /\ \A i \in 2..Len(graph) :
                  RendersRecord(graph[i],
                                DictGet(APP_ELSST_DATA, graph[i].local_identifier, None))

\* C10 witness: a query that expands to one concept, with alternate labels
\* and without broader, has been answered with the data-source node and one
\* topic node that has alternate_name and no parent_topic
C10_Witness ==
    /\ AppAnswered
    /\ Len(response.body.graph) = 2
    /\ Len(APP_ELSST_DATA) > 1
    /\ "alternate_name" \in DOMAIN response.body.graph[2]
    /\ response.body.graph[2].alternate_name # <<>>
    /\ "parent_topic" \notin DOMAIN response.body.graph[2]
    /\ response.body.graph[2].name # <<>>

----------------------------------------------------------------------------
(* The hop cap *)

RECURSIVE AncestorsFrom(_, _)
\* the ancestors of the concept id, nearest first, followed for at most fuel
\* hops: resolved tells that the chain reached a concept without broader
\* through keys of the store only
AncestorsFrom(id, fuel) ==
    LET broader == DictGet(APP_ELSST_DATA, id, None).broader
    IN  IF broader = None THEN [resolved |-> TRUE, ids |-> <<>>]
        ELSE IF fuel = 0 \/ ~Truthy(broader) \/ broader[1] \notin StoreIds(APP_ELSST_DATA)
        THEN [resolved |-> FALSE, ids |-> <<>>]
        ELSE LET rest == AncestorsFrom(broader[1], fuel - 1)
             IN  [resolved |-> rest.resolved, ids |-> <<broader[1]>> \o rest.ids]

\* the ancestors of a concept of the store; a chain of more hops than the
\* store has concepts is cyclic and not resolved
AncestorsOf(start) == AncestorsFrom(start, Len(APP_ELSST_DATA))

\* the first k members of a list, as a set
FirstOf(ids, k) == {ids[i] : i \in 1..Min(k, Len(ids))}

=============================================================================
